---- MODULE Spec2Model ----
(***************************************************************************)
(* Model of snowflake_retention_sync.py: extraction of per-table retention *)
(* settings from the warehouse (SnowflakeRetentionExtractor), the write of *)
(* each one to the catalog (DataHubRetentionSyncer) and the control flow   *)
(* of main().                                                              *)
(*                                                                         *)
(* Python values are records [kind, s, n]: None, a string (a sequence of   *)
(* characters s), an integer n, a float n, or some other object.  Index i  *)
(* of a Python row is element i+1 of the TLA+ sequence.                    *)
(***************************************************************************)
EXTENDS Integers, Sequences, FiniteSets, TLC

(***************************************************************************)
(* Bounds of the model.                                                    *)
(***************************************************************************)
MaxRetention == 12
MaxDbs == 2
MaxSchemas == 2
MaxRows == 2
MaxTables == 2

(***************************************************************************)
(* Column positions of a SHOW TABLES row and the default retention.        *)
(***************************************************************************)
CreatedCol == 0
NameCol == 1
DatabaseCol == 2
SchemaCol == 3
RowsCol == 7
BytesCol == 8
RetentionCol == 10
DefaultRetention == 1

(***************************************************************************)
(* Python values.                                                          *)
(***************************************************************************)
NoneV == [kind |-> "none", s |-> <<>>, n |-> 0]
StrV(s) == [kind |-> "str", s |-> s, n |-> 0]
IntV(n) == [kind |-> "int", s |-> <<>>, n |-> n]
FloatV(n) == [kind |-> "float", s |-> <<>>, n |-> n]
ObjV == [kind |-> "obj", s |-> <<>>, n |-> 0]

IsNone(v) == v.kind = "none"
IsEmptyStr(v) == v.kind = "str" /\ v.s = <<>>

\* bool(v)
Truthy(v) ==
    CASE v.kind = "none" -> FALSE
      [] v.kind = "str" -> v.s # <<>>
      [] v.kind = "int" -> v.n # 0
      [] v.kind = "float" -> v.n # 0
      [] OTHER -> TRUE

DigitChars == <<"0", "1", "2", "3", "4", "5", "6", "7", "8", "9">>
IsDigit(c) == \E d \in 1..10 : DigitChars[d] = c
DigitVal(c) == (CHOOSE d \in 1..10 : DigitChars[d] = c) - 1
IsSpace(c) == c = " "

RECURSIVE LStrip(_)
LStrip(s) ==
    IF s # <<>> /\ IsSpace(Head(s)) THEN LStrip(Tail(s)) ELSE s

RECURSIVE RStrip(_)
RStrip(s) ==
    IF s # <<>> /\ IsSpace(s[Len(s)]) THEN RStrip(SubSeq(s, 1, Len(s) - 1)) ELSE s

Strip(s) == RStrip(LStrip(s))

\* The digits of an integer literal body: digits, single underscores between them.
WellFormedDigits(b) ==
    /\ b # <<>>
    /\ IsDigit(b[1])
    /\ IsDigit(b[Len(b)])
    /\ \A i \in 1..Len(b) : IsDigit(b[i]) \/ b[i] = "_"
    /\ \A i \in 1..(Len(b) - 1) : ~(b[i] = "_" /\ b[i + 1] = "_")

RECURSIVE DigitsValue(_, _)
DigitsValue(b, acc) ==
    IF b = <<>> THEN acc
    ELSE IF Head(b) = "_" THEN DigitsValue(Tail(b), acc)
    ELSE DigitsValue(Tail(b), 10 * acc + DigitVal(Head(b)))

\* int(v): [ok, val, exc]
PyIntStr(s) ==
    LET t == Strip(s)
        signed == t # <<>> /\ Head(t) \in {"+", "-"}
        body == IF signed THEN Tail(t) ELSE t
        mag == DigitsValue(body, 0)
    IN  IF WellFormedDigits(body)
        THEN [ok |-> TRUE, val |-> IF signed /\ Head(t) = "-" THEN 0 - mag ELSE mag, exc |-> "none"]
        ELSE [ok |-> FALSE, val |-> 0, exc |-> "ValueError"]

PyInt(v) ==
    CASE v.kind = "int" -> [ok |-> TRUE, val |-> v.n, exc |-> "none"]
      [] v.kind = "float" -> [ok |-> TRUE, val |-> v.n, exc |-> "none"]
      [] v.kind = "str" -> PyIntStr(v.s)
      [] OTHER -> [ok |-> FALSE, val |-> 0, exc |-> "TypeError"]

\* float(n) of an integer
PyFloat(n) == FloatV(n)

RECURSIVE NatDigits(_)
NatDigits(n) ==
    IF n < 10 THEN <<DigitChars[n + 1]>>
    ELSE NatDigits(n \div 10) \o <<DigitChars[(n % 10) + 1]>>

IntDigits(n) == IF n < 0 THEN <<"-">> \o NatDigits(0 - n) ELSE NatDigits(n)

\* str(v), as an f-string formats it
PyStr(v) ==
    CASE v.kind = "str" -> v.s
      [] v.kind = "int" -> IntDigits(v.n)
      [] v.kind = "none" -> <<"None">>
      [] OTHER -> <<"obj">>

\* A name is a sequence of characters; a run of letters that the model never
\* takes apart ("DB1", "information_schema") stands as one element of it.
UpperChar(c) ==
    CASE c = "db1" -> "DB1"
      [] c = "db2" -> "DB2"
      [] c = "public" -> "PUBLIC"
      [] c = "information_schema" -> "INFORMATION_SCHEMA"
      [] c = "staging" -> "STAGING"
      [] c = "t1" -> "T1"
      [] c = "t2" -> "T2"
      [] c = "t3" -> "T3"
      [] c = "t4" -> "T4"
      [] OTHER -> c

LowerChar(c) ==
    CASE c = "DB1" -> "db1"
      [] c = "DB2" -> "db2"
      [] c = "PUBLIC" -> "public"
      [] c = "INFORMATION_SCHEMA" -> "information_schema"
      [] c = "STAGING" -> "staging"
      [] c = "T1" -> "t1"
      [] c = "T2" -> "t2"
      [] c = "T3" -> "t3"
      [] c = "T4" -> "t4"
      [] c = "None" -> "none"
      [] OTHER -> c

Upper(s) == [i \in 1..Len(s) |-> UpperChar(s[i])]
Lower(s) == [i \in 1..Len(s) |-> LowerChar(s[i])]

(***************************************************************************)
(* SnowflakeTable and the parsing of one SHOW TABLES row                   *)
(* (get_tables_with_retention, the body of its for loop).                  *)
(***************************************************************************)
SnowflakeTable(database, schema, table, retention_days, created_on, row_count, bytes) ==
    [database |-> database, schema |-> schema, table |-> table,
     retention_days |-> retention_days, created_on |-> created_on,
     row_count |-> row_count, bytes |-> bytes]

NoTable == SnowflakeTable(NoneV, NoneV, NoneV, 0, NoneV, NoneV, NoneV)

\* row[i]
PyAt(row, i) == row[i + 1]
HasIndex(row, i) == Len(row) > i

\* DeriveRetention with an unparsable value left at zero instead of the default
DeriveRetentionZero(row) ==
    LET retention_value == IF Len(row) > RetentionCol THEN PyAt(row, RetentionCol) ELSE NoneV
    IN  IF IsNone(retention_value) \/ IsEmptyStr(retention_value)
        THEN DefaultRetention
        ELSE PyInt(retention_value).val

\* lines 161-168
DeriveRetention(row) ==
    LET retention_value == IF Len(row) > RetentionCol THEN PyAt(row, RetentionCol) ELSE NoneV
    IN  IF IsNone(retention_value) \/ IsEmptyStr(retention_value)
        THEN DefaultRetention
        ELSE IF PyInt(retention_value).ok
             THEN PyInt(retention_value).val
             ELSE DefaultRetention

\* lines 171-177 and 180-186: None unless the column holds an integer
OptionalInt(row, col) ==
    LET value == IF Len(row) > col THEN PyAt(row, col) ELSE NoneV
    IN  IF ~IsNone(value) /\ ~IsEmptyStr(value) /\ PyInt(value).ok
        THEN IntV(PyInt(value).val)
        ELSE NoneV

\* lines 159-200: a descriptor, a skipped row, or an exception leaving the loop
ParseRow(row) ==
    IF HasIndex(row, DatabaseCol) /\ HasIndex(row, SchemaCol)
          /\ HasIndex(row, NameCol) /\ HasIndex(row, CreatedCol)
    THEN [outcome |-> "table",
          table |-> SnowflakeTable(PyAt(row, DatabaseCol), PyAt(row, SchemaCol),
                                   PyAt(row, NameCol), DeriveRetention(row),
                                   IF Truthy(PyAt(row, CreatedCol))
                                       THEN StrV(PyStr(PyAt(row, CreatedCol))) ELSE NoneV,
                                   OptionalInt(row, RowsCol), OptionalInt(row, BytesCol))]
    ELSE IF HasIndex(row, NameCol)
         THEN [outcome |-> "skip", table |-> NoTable]
         ELSE [outcome |-> "raise", table |-> NoTable]

\* lines 158-200 over the whole fetchall() result: [raised, tables]
RECURSIVE ParseRows(_, _)
ParseRows(rows, tables) ==
    IF rows = <<>> THEN [raised |-> FALSE, tables |-> tables]
    ELSE LET r == ParseRow(Head(rows))
         IN  CASE r.outcome = "table" -> ParseRows(Tail(rows), Append(tables, r.table))
               [] r.outcome = "skip" -> ParseRows(Tail(rows), tables)
               [] OTHER -> [raised |-> TRUE, tables |-> tables]

(***************************************************************************)
(* Filters: main's parsing of --database-filter / --schema-filter, the     *)
(* constructor's "or []", and their use in get_databases / get_schemas.    *)
(***************************************************************************)
RECURSIVE SplitAcc(_, _, _)
SplitAcc(s, cur, acc) ==
    IF s = <<>> THEN Append(acc, cur)
    ELSE IF Head(s) = "," THEN SplitAcc(Tail(s), <<>>, Append(acc, cur))
    ELSE SplitAcc(Tail(s), Append(cur, Head(s)), acc)

\* s.split(',')
Split(s) == SplitAcc(s, <<>>, <<>>)

\* lines 338-339 then 75-76: the list the extractor keeps
ParseFilter(arg) == IF Truthy(arg) THEN Split(arg.s) ELSE <<>>

InList(x, list) == \E i \in 1..Len(list) : list[i] = x

\* ApplyFilter comparing with the supplied names stripped of blanks
ApplyFilterStripped(all_names, filter) ==
    LET Keep(x) == \E i \in 1..Len(filter) : Strip(filter[i]) = x
    IN  IF filter # <<>> THEN SelectSeq(all_names, Keep) ELSE all_names

\* lines 109-116 and 131-137
ApplyFilter(all_names, filter) ==
    LET Keep(x) == InList(x, filter)
    IN  IF filter # <<>> THEN SelectSeq(all_names, Keep) ELSE all_names

\* [row[1] for row in cursor.fetchall()]
NamesOf(rows) == [i \in 1..Len(rows) |-> PyAt(rows[i], NameCol).s]

\* IsSystemSchema without upper()
IsSystemSchemaExact(schema) == schema = <<"INFORMATION_SCHEMA">>

\* line 222
IsSystemSchema(schema) == Upper(schema) = <<"INFORMATION_SCHEMA">>

(***************************************************************************)
(* sync_table: the dataset URN and the value of the property write.        *)
(***************************************************************************)
RETENTION_PROPERTY_ID == <<"io.acryl.dataManagement.retentionPeriodDays">>

\* line 250
DatasetName(table) ==
    Lower(PyStr(table.database) \o <<".">> \o PyStr(table.schema) \o <<".">> \o PyStr(table.table))

\* lines 251-255
MakeDatasetUrn(name, env) == [platform |-> "snowflake", name |-> name, env |-> env]

\* BuildPatch without the conversion to a float
BuildPatchInt(table, env) ==
    [urn |-> MakeDatasetUrn(DatasetName(table), env),
     key |-> <<"urn:li:structuredProperty:">> \o RETENTION_PROPERTY_ID,
     value |-> IntV(table.retention_days)]

\* lines 258-266: the patch handed to graph.emit
BuildPatch(table, env) ==
    [urn |-> MakeDatasetUrn(DatasetName(table), env),
     key |-> <<"urn:li:structuredProperty:">> \o RETENTION_PROPERTY_ID,
     value |-> PyFloat(table.retention_days)]

(***************************************************************************)
(* Inputs: the command line, and what the warehouse answers.               *)
(***************************************************************************)
Present == StrV(<<"x">>)
RequiredNames == {"snowflake_account", "snowflake_user", "snowflake_password",
                  "datahub_url", "datahub_token"}

Options ==
    { [database_filter |-> NoneV, schema_filter |-> NoneV, dry_run |-> FALSE],
      [database_filter |-> NoneV, schema_filter |-> NoneV, dry_run |-> TRUE],
      [database_filter |-> StrV(<<>>), schema_filter |-> StrV(<<"PUBLIC">>), dry_run |-> FALSE],
      [database_filter |-> StrV(<<"DB1">>), schema_filter |-> NoneV, dry_run |-> FALSE],
      [database_filter |-> StrV(<<"DB1", ",", " ", "DB2">>),
       schema_filter |-> StrV(<<"PUBLIC", ",", "information_schema">>), dry_run |-> TRUE],
      [database_filter |-> StrV(<<"DB3", ",", "DB2">>),
       schema_filter |-> StrV(<<"information_schema", ",", "PUBLIC">>), dry_run |-> FALSE] }

MkArgs(req, opt) ==
    [snowflake_account |-> req["snowflake_account"], snowflake_user |-> req["snowflake_user"],
     snowflake_password |-> req["snowflake_password"], datahub_url |-> req["datahub_url"],
     datahub_token |-> req["datahub_token"], datahub_env |-> <<"PROD">>,
     database_filter |-> opt.database_filter, schema_filter |-> opt.schema_filter,
     dry_run |-> opt.dry_run]

AllPresent == [f \in RequiredNames |-> Present]

\* Every required argument given, or exactly one of them absent or empty.
ArgSets ==
    { MkArgs(AllPresent, opt) : opt \in Options }
    \cup { MkArgs([AllPresent EXCEPT ![f] = bad], opt) :
             f \in RequiredNames, bad \in {NoneV, StrV(<<>>)},
             opt \in {o \in Options : o.database_filter = NoneV /\ o.schema_filter = NoneV} }

\* The names the warehouse may hold, in the order SHOW lists them.
DbNames == << <<"DB1">>, <<"DB2">> >>
SchemaNames == << <<"INFORMATION_SCHEMA">>, <<"PUBLIC">>, <<"STAGING">>, <<"information_schema">> >>
TableNames == <<"T1", "T2", "T3", "T4">>

RECURSIVE Pick(_, _, _)
Pick(names, keep, i) ==
    IF i > Len(names) THEN <<>>
    ELSE (IF i \in keep THEN <<names[i]>> ELSE <<>>) \o Pick(names, keep, i + 1)

\* The answers of a listing: at most max of the names, in listing order.
Listings(names, max) ==
    { Pick(names, keep, 1) : keep \in { k \in SUBSET (1..Len(names)) : Cardinality(k) <= max } }

\* A row of SHOW DATABASES / SHOW SCHEMAS: created_on, name.
NameRow(name) == <<ObjV, StrV(name)>>
NameRows(list) == [i \in 1..Len(list) |-> NameRow(list[i])]

\* A row of SHOW TABLES IN database.schema, and what is left of it when the
\* answer has fewer columns.
FullRow(database, schema, name, retention, rows, bytes) ==
    <<ObjV, StrV(name), StrV(database), StrV(schema), StrV(<<"TABLE">>), StrV(<<>>),
      StrV(<<>>), rows, bytes, StrV(<<"OWNER">>), retention, StrV(<<"OFF">>)>>

RowKinds == {"seven", "unset", "narrow", "nameless"}

MkRow(kind, database, schema, name) ==
    CASE kind = "seven" ->
           FullRow(database, schema, name, StrV(<<"7">>), IntV(5), StrV(<<"6", "4">>))
      [] kind = "unset" ->
           SubSeq(FullRow(database, schema, name, NoneV, NoneV, NoneV), 1, RowsCol + 1)
      [] kind = "narrow" ->
           SubSeq(FullRow(database, schema, name, NoneV, NoneV, NoneV), 1, SchemaCol)
      [] OTHER ->
           SubSeq(FullRow(database, schema, name, NoneV, NoneV, NoneV), 1, NameCol)

MkRows(kinds, database, schema) ==
    [i \in 1..Len(kinds) |-> MkRow(kinds[i], database, schema, <<TableNames[i]>>)]

RowListings(max) == UNION { [1..n -> RowKinds] : n \in 0..max }

Outcomes == {"ok", "ProgrammingError", "OperationalError"}

(***************************************************************************)
(* State.                                                                  *)
(***************************************************************************)
VARIABLES
    pc,               \* where main() is
    args,             \* the parsed command line
    exit_code,        \* -1 while running, then the process's exit code
    fatal,            \* the exception that reached main's except clause
    conn,             \* extractor.conn: "none", "failed", "open", "closed"
    database_filter,  \* extractor.database_filter
    schema_filter,    \* extractor.schema_filter
    all_databases,    \* get_databases: the names the warehouse listed
    databases,        \* extract_all_retention_data: databases
    dbIdx,            \* position of its for loop over databases
    all_schemas,      \* get_schemas: the names the warehouse listed
    schemas,          \* schemas of the current database
    schIdx,           \* position of the for loop over schemas
    fetched,          \* the last cursor.fetchall() of SHOW TABLES
    all_tables,       \* all_tables, then main's tables
    queries,          \* the statements executed on the warehouse, in order
    summary,          \* retention_summary as logged
    syncer,           \* whether a DataHubRetentionSyncer was constructed
    emits,            \* the calls of graph.emit, in order, each with its outcome
    syncIdx,          \* position of sync_all's for loop
    stats,            \* sync_all's stats
    report,           \* the final "SYNC COMPLETE" lines
    catalog,          \* the catalog: the property value each dataset URN holds
    warehouse,        \* what the warehouse holds, when it is the same from run to run
    run,              \* the number of the run of the sync script
    catalog_log,      \* the catalog as each earlier run left it
    client,           \* the property scripts: whether the DataHubGraph client exists
    success,          \* create_retention_property.main's success flag
    calls             \* the property scripts: the catalog calls made, with their outcomes

vars == <<pc, args, exit_code, fatal, conn, database_filter, schema_filter, all_databases,
          databases, dbIdx, all_schemas, schemas, schIdx, fetched, all_tables, queries, summary, syncer, emits,
          syncIdx, stats, report, catalog, warehouse, run, catalog_log, client, success, calls>>

\* What is carried from one run of the sync script to the next.
rerunVars == <<warehouse, run, catalog_log>>

\* The state of the two property scripts.
propVars == <<client, success, calls>>

NoWarehouse == [databases |-> <<>>, schemas |-> <<>>, kinds |-> <<>>]

\* A catalog is a function from <<dataset URN, property key>> to the value held.
EmptyCatalog == [k \in {} |-> NoneV]

NoReport == [total |-> -1, success |-> -1, failed |-> -1]

Init ==
    /\ pc = "main"
    /\ args \in ArgSets
    /\ exit_code = -1
    /\ fatal = "none"
    /\ conn = "none"
    /\ database_filter = <<>>
    /\ schema_filter = <<>>
    /\ all_databases = <<>>
    /\ databases = <<>>
    /\ dbIdx = 0
    /\ all_schemas = <<>>
    /\ schemas = <<>>
    /\ schIdx = 0
    /\ fetched = <<>>
    /\ all_tables = <<>>
    /\ queries = <<>>
    /\ summary = <<>>
    /\ syncer = FALSE
    /\ emits = <<>>
    /\ syncIdx = 0
    /\ stats = [success |-> 0, failed |-> 0]
    /\ report = NoReport
    /\ catalog = EmptyCatalog
    /\ warehouse = NoWarehouse
    /\ run = 1
    /\ catalog_log = <<>>
    /\ client = FALSE
    /\ success = TRUE
    /\ calls = <<>>

\* main's "except Exception": log, sys.exit(1)
Fatal(exc) ==
    /\ fatal' = exc
    /\ exit_code' = 1
    /\ pc' = "done"

\* RequiredGiven without the check of the catalog token
RequiredGivenNoToken(a) ==
    /\ Truthy(a.snowflake_account)
    /\ Truthy(a.snowflake_user)
    /\ Truthy(a.snowflake_password)
    /\ Truthy(a.datahub_url)

\* line 332: all([...])
RequiredGiven(a) ==
    /\ Truthy(a.snowflake_account)
    /\ Truthy(a.snowflake_user)
    /\ Truthy(a.snowflake_password)
    /\ Truthy(a.datahub_url)
    /\ Truthy(a.datahub_token)

\* main, lines 325-352: validation, filters, construction of the extractor
Start ==
    /\ pc = "main"
    /\ IF ~RequiredGiven(args)
       THEN /\ exit_code' = 1
            /\ pc' = "done"
            /\ UNCHANGED <<database_filter, schema_filter>>
       ELSE /\ database_filter' = ParseFilter(args.database_filter)
            /\ schema_filter' = ParseFilter(args.schema_filter)
            /\ pc' = "connect"
            /\ UNCHANGED exit_code
    /\ UNCHANGED <<args, catalog, rerunVars, propVars, fatal, conn, all_databases, databases, dbIdx, all_schemas,
                   schemas, schIdx, fetched, all_tables, queries, summary, syncer, emits,
                   syncIdx, stats, report>>

\* extractor.connect(), lines 79-96 and 354, when snowflake.connector.connect
\* returns (ok) or raises
ConnectWith(ok) ==
    /\ pc = "connect"
    /\ IF ok
       THEN /\ conn' = "open"
            /\ pc' = "get_databases"
            /\ UNCHANGED <<fatal, exit_code>>
       ELSE /\ conn' = "failed"
            /\ Fatal("ConnectError")
    /\ UNCHANGED <<args, catalog, rerunVars, propVars, database_filter, schema_filter, all_databases, databases, dbIdx,
                   all_schemas, schemas, schIdx, fetched, all_tables, queries, summary,
                   syncer, emits, syncIdx, stats, report>>

\* Connect with the failure logged and not raised again
ConnectSwallow ==
    /\ pc = "connect"
    /\ \E ok \in BOOLEAN : conn' = IF ok THEN "open" ELSE "failed"
    /\ pc' = "get_databases"
    /\ UNCHANGED <<args, catalog, rerunVars, propVars, exit_code, fatal, database_filter, schema_filter, all_databases,
                   databases, dbIdx, all_schemas, schemas, schIdx, fetched, all_tables,
                   queries, summary, syncer, emits, syncIdx, stats, report>>

\* extractor.connect(), lines 79-96 and 354
Connect == \E ok \in BOOLEAN : ConnectWith(ok)

Query(kind, database, schema) == [kind |-> kind, database |-> database, schema |-> schema]

\* get_databases(), lines 104-124, as called on line 215
GetDatabasesWith(outcome, listing) ==
    /\ pc = "get_databases"
    /\ queries' = Append(queries, Query("SHOW DATABASES", <<>>, <<>>))
    /\   CASE outcome = "ok" ->
                /\ all_databases' = NamesOf(NameRows(listing))
                /\ databases' = ApplyFilter(NamesOf(NameRows(listing)), database_filter)
                /\ dbIdx' = 1
                /\ pc' = "databases"
                /\ UNCHANGED <<fatal, exit_code>>
           [] outcome = "ProgrammingError" ->
                /\ listing = <<>>
                /\ all_databases' = <<>>
                /\ databases' = <<>>
                /\ dbIdx' = 1
                /\ pc' = "databases"
                /\ UNCHANGED <<fatal, exit_code>>
           [] OTHER ->
                /\ listing = <<>>
                /\ Fatal(outcome)
                /\ UNCHANGED <<all_databases, databases, dbIdx>>
    /\ UNCHANGED <<args, catalog, rerunVars, propVars, conn, database_filter, schema_filter, all_schemas, schemas,
                   schIdx, fetched, all_tables, summary, syncer, emits, syncIdx, stats,
                   report>>

\* get_databases() with whatever the warehouse may answer
GetDatabases ==
    \E outcome \in Outcomes, listing \in Listings(DbNames, MaxDbs) :
        GetDatabasesWith(outcome, listing)

\* One turn of the loop over databases: get_schemas(database), lines 217-218, 126-144
GetSchemasWith(outcome, listing) ==
    /\ pc = "databases"
    /\ dbIdx <= Len(databases)
    /\ queries' = Append(queries, Query("SHOW SCHEMAS", databases[dbIdx], <<>>))
    /\   CASE outcome = "ok" ->
                /\ all_schemas' = NamesOf(NameRows(listing))
                /\ schemas' = ApplyFilter(NamesOf(NameRows(listing)), schema_filter)
                /\ schIdx' = 1
                /\ pc' = "schemas"
                /\ UNCHANGED <<fatal, exit_code>>
           [] outcome = "ProgrammingError" ->
                /\ listing = <<>>
                /\ all_schemas' = <<>>
                /\ schemas' = <<>>
                /\ schIdx' = 1
                /\ pc' = "schemas"
                /\ UNCHANGED <<fatal, exit_code>>
           [] OTHER ->
                /\ listing = <<>>
                /\ Fatal(outcome)
                /\ UNCHANGED <<all_schemas, schemas, schIdx>>
    /\ UNCHANGED <<args, catalog, rerunVars, propVars, conn, database_filter, schema_filter, all_databases, databases,
                   dbIdx, fetched, all_tables, summary, syncer, emits, syncIdx, stats,
                   report>>

\* get_schemas(database) with whatever the warehouse may answer
GetSchemas ==
    \E outcome \in Outcomes, listing \in Listings(SchemaNames, MaxSchemas) :
        GetSchemasWith(outcome, listing)

\* One turn of the loop over schemas, lines 220-223: a system schema is passed over
SkipSchema ==
    /\ pc = "schemas"
    /\ schIdx <= Len(schemas)
    /\ IsSystemSchema(schemas[schIdx])
    /\ schIdx' = schIdx + 1
    /\ UNCHANGED <<pc, args, catalog, rerunVars, propVars, exit_code, fatal, conn, database_filter, schema_filter,
                   all_databases, databases, dbIdx, all_schemas, schemas, fetched,
                   all_tables, queries, summary, syncer, emits, syncIdx, stats, report>>

\* One turn of the loop over schemas, lines 225-226:
\* get_tables_with_retention(database, schema), lines 146-209
GetTablesWith(outcome, kinds) ==
    /\ pc = "schemas"
    /\ schIdx <= Len(schemas)
    /\ ~IsSystemSchema(schemas[schIdx])
    /\ queries' = Append(queries, Query("SHOW TABLES", databases[dbIdx], schemas[schIdx]))
    /\     CASE outcome = "ok" ->
                  LET rows == MkRows(kinds, databases[dbIdx], schemas[schIdx])
                      parsed == ParseRows(rows, <<>>)
                  IN  /\ fetched' = rows
                      /\ IF parsed.raised
                         THEN /\ Fatal("IndexError")
                              /\ UNCHANGED <<all_tables, schIdx>>
                         ELSE /\ all_tables' = all_tables \o parsed.tables
                              /\ schIdx' = schIdx + 1
                              /\ UNCHANGED <<pc, fatal, exit_code>>
             [] outcome = "ProgrammingError" ->
                  /\ kinds = <<>>
                  /\ fetched' = <<>>
                  /\ schIdx' = schIdx + 1
                  /\ UNCHANGED <<pc, fatal, exit_code, all_tables>>
             [] OTHER ->
                  /\ kinds = <<>>
                  /\ Fatal(outcome)
                  /\ UNCHANGED <<fetched, all_tables, schIdx>>
    /\ UNCHANGED <<args, catalog, rerunVars, propVars, conn, database_filter, schema_filter, all_databases, databases,
                   dbIdx, all_schemas, schemas, summary, syncer, emits, syncIdx, stats,
                   report>>

\* get_tables_with_retention(database, schema) with whatever the warehouse may
\* answer, the run holding at most MaxTables rows in all
GetTables ==
    \E outcome \in Outcomes, kinds \in RowListings(MaxRows) :
        /\ Len(all_tables) + Len(kinds) <= MaxTables
        /\ GetTablesWith(outcome, kinds)

\* The loop over schemas is exhausted: next database, line 217
NextDatabase ==
    /\ pc = "schemas"
    /\ schIdx > Len(schemas)
    /\ dbIdx' = dbIdx + 1
    /\ pc' = "databases"
    /\ UNCHANGED <<args, catalog, rerunVars, propVars, exit_code, fatal, conn, database_filter, schema_filter,
                   all_databases, databases, all_schemas, schemas, schIdx, fetched,
                   all_tables, queries, summary, syncer, emits, syncIdx, stats, report>>

\* retention_summary, lines 363-365
RetentionSummary(tables) ==
    [d \in {tables[i].retention_days : i \in 1..Len(tables)} |->
        Cardinality({i \in 1..Len(tables) : tables[i].retention_days = d})]

\* DryRun with the flag ignored
DryRunIgnored(a) == FALSE

\* line 371
DryRun(a) == a.dry_run

\* The loop over databases is exhausted, lines 228-229; then main, lines 356-381:
\* close, the empty case, the summary, the dry run, construction of the syncer
FinishExtractWith(ok) ==
    /\ pc = "databases"
    /\ dbIdx > Len(databases)
    /\ conn' = "closed"
    /\ IF all_tables = <<>>
       THEN /\ exit_code' = 0
            /\ pc' = "done"
            /\ UNCHANGED <<summary, syncer, syncIdx, fatal>>
       ELSE /\ summary' = RetentionSummary(all_tables)
            /\ IF DryRun(args)
               THEN /\ exit_code' = 0
                    /\ pc' = "done"
                    /\ UNCHANGED <<syncer, syncIdx, fatal>>
               ELSE   IF ok
                      THEN /\ syncer' = TRUE
                           /\ syncIdx' = 1
                           /\ pc' = "sync"
                           /\ UNCHANGED <<exit_code, fatal>>
                      ELSE /\ Fatal("GraphError")
                           /\ UNCHANGED <<syncer, syncIdx>>
    /\ UNCHANGED <<args, catalog, rerunVars, propVars, database_filter, schema_filter, all_databases, databases, dbIdx,
                   all_schemas, schemas, schIdx, fetched, all_tables, queries, emits,
                   stats, report>>

\* The end of the extraction, the DataHubGraph constructor returning or raising
FinishExtract == \E ok \in BOOLEAN : FinishExtractWith(ok)

\* CountOutcome counting a failed write as a success too
CountOutcomeBoth(st, ok) ==
    IF ok THEN [st EXCEPT !.success = @ + 1]
    ELSE [st EXCEPT !.success = @ + 1, !.failed = @ + 1]

\* lines 284-287
CountOutcome(st, ok) ==
    IF ok THEN [st EXCEPT !.success = @ + 1] ELSE [st EXCEPT !.failed = @ + 1]

\* graph.emit(patch) accepted by the catalog, line 271: set_structured_property
\* on an add-only patch adds to what the property already holds
ApplyPatchAdding(cat, patch) ==
    LET k == <<patch.urn, patch.key>>
    IN  [u \in DOMAIN cat \cup {k} |->
            IF u = k /\ k \in DOMAIN cat
            THEN FloatV(cat[k].n + patch.value.n)
            ELSE IF u = k THEN patch.value ELSE cat[u]]

\* graph.emit(patch) accepted by the catalog, line 271: set_structured_property
\* (line 263) replaces what the property held on that dataset
ApplyPatch(cat, patch) ==
    LET k == <<patch.urn, patch.key>>
    IN  [u \in DOMAIN cat \cup {k} |-> IF u = k THEN patch.value ELSE cat[u]]

\* sync_all's for loop with a failed table tried again
NextTableRetry(i, ok) == IF ok THEN i + 1 ELSE i

\* sync_all's for loop, line 283: on to the next table whatever the outcome
NextTable(i, ok) == i + 1

\* One turn of sync_all's loop, lines 283-287: sync_table(table), lines 246-277
SyncTableWith(ok) ==
    /\ pc = "sync"
    /\ syncIdx <= Len(all_tables)
    /\ LET patch == BuildPatch(all_tables[syncIdx], args.datahub_env)
       IN  /\ emits' = Append(emits, [patch |-> patch, ok |-> ok])
           /\ catalog' = IF ok THEN ApplyPatch(catalog, patch) ELSE catalog
    /\ stats' = CountOutcome(stats, ok)
    /\ syncIdx' = NextTable(syncIdx, ok)
    /\ UNCHANGED <<pc, args, rerunVars, propVars, exit_code, fatal, conn, database_filter, schema_filter,
                   all_databases, databases, dbIdx, all_schemas, schemas, schIdx, fetched,
                   all_tables, queries, summary, syncer, report>>

\* sync_table(table) with graph.emit returning or raising
SyncTable == \E ok \in BOOLEAN : SyncTableWith(ok)

\* sync_all returns, lines 289-290; main reports, lines 383-389
FinishSync ==
    /\ pc = "sync"
    /\ syncIdx > Len(all_tables)
    /\ report' = [total |-> Len(all_tables), success |-> stats.success, failed |-> stats.failed]
    /\ exit_code' = 0
    /\ pc' = "done"
    /\ UNCHANGED <<args, catalog, rerunVars, propVars, fatal, conn, database_filter, schema_filter, all_databases,
                   databases, dbIdx, all_schemas, schemas, schIdx, fetched, all_tables,
                   queries, summary, syncer, emits, syncIdx, stats>>

Next ==
    \/ Start
    \/ Connect
    \/ GetDatabases
    \/ GetSchemas
    \/ SkipSchema
    \/ GetTables
    \/ NextDatabase
    \/ FinishExtract
    \/ SyncTable
    \/ FinishSync

Spec == Init /\ [][Next]_vars

(***************************************************************************)
(* The row pipeline alone: one SHOW TABLES row, drawn from a wide set of   *)
(* retention values and row widths, is parsed by the loop body of          *)
(* get_tables_with_retention and the resulting descriptor is written by    *)
(* sync_table.                                                             *)
(***************************************************************************)
\* Retention fields holding a number: an integer, or its decimal numeral.
NumericVals ==
    { IntV(n) : n \in 0..MaxRetention } \cup { StrV(IntDigits(n)) : n \in -1..MaxRetention }

MissingVals == { NoneV, StrV(<<>>) }

\* Retention fields int() rejects.
JunkVals ==
    { StrV(<<"a", "b", "c">>), StrV(<<"3", ".", "5">>), StrV(<<"7", "d">>), StrV(<<"-">>),
      StrV(<<" ">>), StrV(<<"_", "1">>), StrV(<<"1", "_", "_", "0">>), StrV(<<"1", " ", "0">>),
      StrV(<<"-", "-", "1">>), StrV(<<"N", "U", "L", "L">>), ObjV }

\* Retention fields int() accepts that are no plain numeral.
PaddedVals ==
    { StrV(<<" ", "7">>), StrV(<<"7", " ">>), StrV(<<"+", "3">>), StrV(<<"1", "_", "0">>),
      StrV(<<"0", "0", "7">>) }

RetentionValues == NumericVals \cup MissingVals \cup JunkVals \cup PaddedVals

SampleRow(retention, rows, bytes) ==
    FullRow(<<"DB1">>, <<"PUBLIC">>, <<"T1">>, retention, rows, bytes)

RowUniverse ==
    { SampleRow(v, IntV(5), StrV(<<"6", "4">>)) : v \in RetentionValues }
    \cup { SubSeq(SampleRow(v, StrV(<<>>), StrV(<<"x">>)), 1, RetentionCol + 1) :
             v \in RetentionValues }
    \cup { SubSeq(SampleRow(StrV(<<"7">>), NoneV, IntV(0)), 1, k) : k \in 0..RetentionCol }

InitRow ==
    /\ pc = "row"
    /\ args = MkArgs(AllPresent, [database_filter |-> NoneV, schema_filter |-> NoneV,
                                  dry_run |-> FALSE])
    /\ exit_code = -1
    /\ fatal = "none"
    /\ conn = "open"
    /\ database_filter = <<>>
    /\ schema_filter = <<>>
    /\ all_databases = << <<"DB1">> >>
    /\ databases = << <<"DB1">> >>
    /\ dbIdx = 1
    /\ all_schemas = << <<"PUBLIC">> >>
    /\ schemas = << <<"PUBLIC">> >>
    /\ schIdx = 1
    /\ fetched \in { <<r>> : r \in RowUniverse }
    /\ all_tables = <<>>
    /\ queries = <<>>
    /\ summary = <<>>
    /\ syncer = TRUE
    /\ emits = <<>>
    /\ syncIdx = 1
    /\ stats = [success |-> 0, failed |-> 0]
    /\ report = NoReport
    /\ catalog = EmptyCatalog
    /\ warehouse = NoWarehouse
    /\ run = 1
    /\ catalog_log = <<>>
    /\ client = FALSE
    /\ success = TRUE
    /\ calls = <<>>

\* lines 158-203 applied to the fetched row
RowParse ==
    /\ pc = "row"
    /\ LET parsed == ParseRows(fetched, <<>>)
       IN  IF parsed.raised
           THEN /\ Fatal("IndexError")
                /\ UNCHANGED all_tables
           ELSE /\ all_tables' = parsed.tables
                /\ pc' = "write"
                /\ UNCHANGED <<fatal, exit_code>>
    /\ UNCHANGED <<args, catalog, rerunVars, propVars, conn, database_filter, schema_filter, all_databases, databases,
                   dbIdx, all_schemas, schemas, schIdx, fetched, queries, summary, syncer,
                   emits, syncIdx, stats, report>>

\* lines 246-273 applied to the descriptor, when there is one
RowWrite ==
    /\ pc = "write"
    /\ pc' = "done"
    /\ IF all_tables = <<>>
       THEN UNCHANGED <<emits, stats, syncIdx, catalog>>
       ELSE LET patch == BuildPatch(all_tables[1], args.datahub_env)
            IN  /\ emits' = Append(emits, [patch |-> patch, ok |-> TRUE])
                /\ catalog' = ApplyPatch(catalog, patch)
                /\ stats' = CountOutcome(stats, TRUE)
                /\ syncIdx' = NextTable(syncIdx, TRUE)
    /\ UNCHANGED <<args, rerunVars, propVars, exit_code, fatal, conn, database_filter, schema_filter,
                   all_databases, databases, dbIdx, all_schemas, schemas, schIdx, fetched,
                   all_tables, queries, summary, syncer, report>>

NextRow ==
    \/ RowParse
    \/ RowWrite

SpecRow == InitRow /\ [][NextRow]_vars

(***************************************************************************)
(* Properties.                                                             *)
(***************************************************************************)
SetOf(seq) == { seq[i] : i \in 1..Len(seq) }

\* The retention field of the row is absent, None, empty, or no integer.
RetentionUnusable(row) ==
    \/ Len(row) <= RetentionCol
    \/ PyAt(row, RetentionCol) \in MissingVals \cup JunkVals

\* The number a numeric retention field holds.
NumberOf(v) == CHOOSE n \in -1..MaxRetention : v = IntV(n) \/ v = StrV(IntDigits(n))

RetentionNumeric(row) == Len(row) > RetentionCol /\ PyAt(row, RetentionCol) \in NumericVals

\* C1: a row whose retention field is absent (fewer than 11 columns), None, the
\* empty string or not parsable as an integer yields a descriptor whose
\* retention_days is exactly 1; the row is left out only when it lacks the
\* name, database or schema column, never because of its retention field.
C1_DefaultRetention ==
    (pc # "row" /\ RetentionUnusable(fetched[1])) =>
        /\ \A i \in 1..Len(all_tables) : all_tables[i].retention_days = 1
        /\ Len(fetched[1]) > SchemaCol =>
              /\ Len(all_tables) = 1
              /\ all_tables[1].table = PyAt(fetched[1], NameCol)
              /\ fatal = "none"

C1_Witness ==
    /\ pc = "done"
    /\ Len(fetched[1]) > RetentionCol
    /\ PyAt(fetched[1], RetentionCol) = StrV(<<"3", ".", "5">>)
    /\ Len(all_tables) = 1
    /\ all_tables[1].retention_days = 1

\* C2: a row with a numeric retention field yields retention_days equal to that
\* number as an integer, and the value sync_table hands to the catalog write is
\* that integer as a float.
C2_NumericRetention ==
    (pc # "row" /\ RetentionNumeric(fetched[1])) =>
        /\ Len(all_tables) = 1
        /\ all_tables[1].retention_days = NumberOf(PyAt(fetched[1], RetentionCol))
        /\ pc = "done" =>
              /\ Len(emits) = 1
              /\ emits[1].patch.value = FloatV(NumberOf(PyAt(fetched[1], RetentionCol)))

C2_Witness ==
    /\ pc = "done"
    /\ Len(fetched[1]) > RetentionCol
    /\ PyAt(fetched[1], RetentionCol) = StrV(<<"1", "2">>)
    /\ Len(emits) = 1
    /\ emits[1].patch.value = FloatV(12)

\* An allow-list is provided when the option holds a non-empty string.
Provided(arg) == arg.kind = "str" /\ arg.s # <<>>

\* The names an allow-list supplies: its maximal runs free of commas.
Supplied(arg) ==
    LET s == arg.s
        IsRun(i, j) ==
            /\ j >= i - 1
            /\ \A k \in i..j : s[k] # ","
            /\ i = 1 \/ s[i - 1] = ","
            /\ j = Len(s) \/ s[j + 1] = ","
    IN  { SubSeq(s, p[1], p[2]) :
            p \in { q \in (1..(Len(s) + 1)) \X (0..Len(s)) : IsRun(q[1], q[2]) } }

Allowed(discovered, arg) ==
    IF Provided(arg) THEN SetOf(discovered) \cap Supplied(arg) ELSE SetOf(discovered)

\* C3: with an allow-list the databases (schemas) returned are exactly the
\* discovered names that are among the supplied names, and no table of a
\* database or schema outside the list is extracted or written; without one the
\* returned list is the discovered list.
C3_AllowLists ==
    /\ SetOf(databases) = Allowed(all_databases, args.database_filter)
    /\ SetOf(schemas) = Allowed(all_schemas, args.schema_filter)
    /\ ~Provided(args.database_filter) => databases = all_databases
    /\ ~Provided(args.schema_filter) => schemas = all_schemas
    /\ \A i \in 1..Len(all_tables) :
          /\ Provided(args.database_filter) =>
                all_tables[i].database.s \in Supplied(args.database_filter)
          /\ Provided(args.schema_filter) =>
                all_tables[i].schema.s \in Supplied(args.schema_filter)
    /\ \A k \in 1..Len(emits) :
          /\ k <= Len(all_tables)
          /\ emits[k].patch.urn.name =
                Lower(all_tables[k].database.s \o <<".">> \o all_tables[k].schema.s
                      \o <<".">> \o all_tables[k].table.s)

C3_Witness ==
    /\ Provided(args.database_filter)
    /\ Provided(args.schema_filter)
    /\ Len(all_databases) = 2
    /\ databases = << <<"DB2">> >>
    /\ <<"STAGING">> \in SetOf(all_schemas)
    /\ schemas = << <<"PUBLIC">> >>
    /\ emits # <<>>

InfoSchemaNames == { <<"information_schema">>, <<"INFORMATION_SCHEMA">> }

\* C4: whatever the schema allow-list, no SHOW TABLES is run for a schema named
\* information_schema in any letter case, and no table of such a schema is in
\* the extracted list or written to the catalog.
C4_NoInformationSchema ==
    /\ \A i \in 1..Len(queries) :
          queries[i].kind = "SHOW TABLES" => queries[i].schema \notin InfoSchemaNames
    /\ \A i \in 1..Len(all_tables) : all_tables[i].schema.s \notin InfoSchemaNames
    /\ \A k \in 1..Len(emits) :
          \A j \in 1..Len(emits[k].patch.urn.name) :
              emits[k].patch.urn.name[j] # "information_schema"

C4_Witness ==
    /\ pc = "done"
    /\ Provided(args.schema_filter)
    /\ schemas = << <<"PUBLIC">>, <<"information_schema">> >>
    /\ schIdx = 3
    /\ emits # <<>>

\* C5: with --dry-run no syncer is constructed and graph.emit is never called;
\* a dry run that ends normally has done the extraction, closed the warehouse
\* connection and logged the distribution of the retention days of the tables
\* it found (nothing when it found none).
C5_DryRunWritesNothing ==
    args.dry_run =>
        /\ ~syncer
        /\ emits = <<>>
        /\ pc # "sync"
        /\ (pc = "done" /\ exit_code = 0) =>
              /\ conn = "closed"
              /\ queries # <<>>
              /\ DOMAIN summary = { all_tables[i].retention_days : i \in 1..Len(all_tables) }
              /\ \A d \in DOMAIN summary :
                    summary[d] = Cardinality({ i \in 1..Len(all_tables) :
                                                 all_tables[i].retention_days = d })

C5_Witness ==
    /\ args.dry_run
    /\ pc = "done"
    /\ exit_code = 0
    /\ Len(all_tables) = 2
    /\ DOMAIN summary = {1, 7}
    /\ emits = <<>>

\* C6: after every turn of sync_all's loop success + failed is the number of
\* tables processed so far, each table counted once, as a success when its
\* write succeeded and as a failure otherwise; the reported counts add up to
\* the number of extracted tables.
C6_CountsAddUp ==
    /\ pc = "sync" => stats.success + stats.failed = syncIdx - 1
    /\ Len(emits) = stats.success + stats.failed
    /\ stats.success = Cardinality({ k \in 1..Len(emits) : emits[k].ok })
    /\ stats.failed = Cardinality({ k \in 1..Len(emits) : ~emits[k].ok })
    /\ report # NoReport =>
          /\ report.total = Len(all_tables)
          /\ report.success + report.failed = report.total
          /\ report.success = stats.success
          /\ report.failed = stats.failed

C6_Witness ==
    /\ pc = "done"
    /\ report.total = 2
    /\ report.success = 1
    /\ report.failed = 1

\* A row from which a descriptor can be built.
Parseable(row) == Len(row) > SchemaCol

\* C7: a row that fails to parse is skipped and every other row of the same
\* answer is extracted, the run going on; a failed write is counted and every
\* later table is still attempted.
C7_FailuresSkipped ==
    /\ fatal # "IndexError"
    /\ LET good == SelectSeq(fetched, Parseable)
           base == Len(all_tables) - Len(good)
       IN  /\ base >= 0
           /\ \A i \in 1..Len(good) : all_tables[base + i].table = PyAt(good[i], NameCol)
    /\ \A k \in 1..Len(emits) : ~emits[k].ok => stats.failed >= 1
    /\ report # NoReport => Len(emits) = Len(all_tables)

\* C8: once connected, no failure of a listing or of a write aborts the
\* process; only a failed connection does.
C8_OnlyConnectAborts ==
    (exit_code = 1 /\ conn # "none") => conn = "failed"

ConfigMissing(a) == \E f \in RequiredNames : a[f] \in { NoneV, StrV(<<>>) }

\* C9: the process ends with exit code 0 on success and 1 when a required
\* argument is absent or empty or a fatal error occurred; with a missing
\* argument it ends before any connection to the warehouse or the catalog.
C9_ExitCodes ==
    /\ pc # "done" => exit_code = -1
    /\ pc = "done" =>
          /\ exit_code \in {0, 1}
          /\ exit_code = 1 <=> (ConfigMissing(args) \/ fatal # "none")
    /\ ConfigMissing(args) =>
          /\ conn = "none"
          /\ ~syncer
          /\ queries = <<>>
          /\ emits = <<>>
          /\ pc \in {"main", "done"}

C9_Witness ==
    /\ pc = "done"
    /\ exit_code = 1
    /\ args.datahub_token = StrV(<<>>)
    /\ conn = "none"

\* C10: when the connection to the warehouse fails the process exits with a
\* non-zero code, having executed no listing query and issued no catalog write.
C10_ConnectFailureAborts ==
    conn = "failed" =>
        /\ pc = "done"
        /\ exit_code = 1
        /\ fatal = "ConnectError"
        /\ queries = <<>>
        /\ emits = <<>>
        /\ ~syncer

C10_Witness ==
    /\ conn = "failed"
    /\ pc = "done"
    /\ exit_code = 1

\* C15: a warehouse connection that was opened is closed by the time the
\* process has terminated, on every path (completion, empty result, dry run,
\* fatal error during extraction), and neither the syncer nor any catalog
\* write exists while the connection is still open.
C15_ClosedBeforeExit ==
    /\ (pc = "done" /\ conn # "none") => conn \in {"closed", "failed"}
    /\ (syncer \/ emits # <<>>) => conn = "closed"

\* C12: there are no retries. Within one run the k-th call of graph.emit is the
\* write of the k-th extracted table, so sync_table runs once per entry of the
\* list in extraction order and a failed write is not attempted again; when
\* sync_all has returned every entry has had its one call; and no listing
\* query (SHOW DATABASES, SHOW SCHEMAS of a database, SHOW TABLES of a schema)
\* is executed twice.
C12_NoRetries ==
    /\ Len(emits) <= Len(all_tables)
    /\ \A k \in 1..Len(emits) :
          emits[k].patch = BuildPatch(all_tables[k], args.datahub_env)
    /\ pc = "sync" => Len(emits) = syncIdx - 1
    /\ report # NoReport => Len(emits) = Len(all_tables)
    /\ stats.success + stats.failed = Len(emits)
    /\ \A i, j \in 1..Len(queries) : queries[i] = queries[j] => i = j

C12_Witness ==
    /\ report # NoReport
    /\ Len(all_tables) = 2
    /\ Len(emits) = 2
    /\ ~emits[1].ok
    /\ emits[2].ok
    /\ emits[1].patch # emits[2].patch
    /\ Len(queries) >= 4

(***************************************************************************)
(* The sync script run again and again on a warehouse that does not        *)
(* change, with the same command line, every call on the warehouse and on  *)
(* the catalog succeeding. The catalog outlives the runs.                  *)
(***************************************************************************)
MaxRuns == 2

\* What the warehouse holds: its databases, the schemas of each database and
\* the kinds of the rows SHOW TABLES answers for each schema.
Warehouses ==
    { [databases |-> d, schemas |-> s, kinds |-> k] :
        d \in Listings(DbNames, MaxDbs), s \in Listings(SchemaNames, MaxSchemas),
        k \in RowListings(MaxRows) }

RerunArgs == { MkArgs(AllPresent, opt) : opt \in Options }

\* The catalog before the first run: empty, or holding an older value for
\* the first table of DB1.PUBLIC.
StaleCatalog ==
    LET row == MkRow("seven", <<"DB1">>, <<"PUBLIC">>, <<TableNames[1]>>)
        table == ParseRows(<<row>>, <<>>).tables[1]
        patch == BuildPatch(table, <<"PROD">>)
    IN  ApplyPatch(EmptyCatalog, [patch EXCEPT !.value = FloatV(MaxRetention)])

InitialCatalogs == { EmptyCatalog, StaleCatalog }

InitRerun ==
    /\ pc = "main"
    /\ args \in RerunArgs
    /\ exit_code = -1
    /\ fatal = "none"
    /\ conn = "none"
    /\ database_filter = <<>>
    /\ schema_filter = <<>>
    /\ all_databases = <<>>
    /\ databases = <<>>
    /\ dbIdx = 0
    /\ all_schemas = <<>>
    /\ schemas = <<>>
    /\ schIdx = 0
    /\ fetched = <<>>
    /\ all_tables = <<>>
    /\ queries = <<>>
    /\ summary = <<>>
    /\ syncer = FALSE
    /\ emits = <<>>
    /\ syncIdx = 0
    /\ stats = [success |-> 0, failed |-> 0]
    /\ report = NoReport
    /\ catalog \in InitialCatalogs
    /\ warehouse \in Warehouses
    /\ run = 1
    /\ catalog_log = <<>>
    /\ client = FALSE
    /\ success = TRUE
    /\ calls = <<>>

\* The listings answered from what the warehouse holds.
RerunGetDatabases == GetDatabasesWith("ok", warehouse.databases)

RerunGetSchemas == GetSchemasWith("ok", warehouse.schemas)

RerunGetTables == GetTablesWith("ok", warehouse.kinds)

\* The process has ended and the script is started again: a new process, the
\* same command line, warehouse and catalog.
Rerun ==
    /\ pc = "done"
    /\ run < MaxRuns
    /\ run' = run + 1
    /\ catalog_log' = Append(catalog_log, catalog)
    /\ pc' = "main"
    /\ exit_code' = -1
    /\ fatal' = "none"
    /\ conn' = "none"
    /\ database_filter' = <<>>
    /\ schema_filter' = <<>>
    /\ all_databases' = <<>>
    /\ databases' = <<>>
    /\ dbIdx' = 0
    /\ all_schemas' = <<>>
    /\ schemas' = <<>>
    /\ schIdx' = 0
    /\ fetched' = <<>>
    /\ all_tables' = <<>>
    /\ queries' = <<>>
    /\ summary' = <<>>
    /\ syncer' = FALSE
    /\ emits' = <<>>
    /\ syncIdx' = 0
    /\ stats' = [success |-> 0, failed |-> 0]
    /\ report' = NoReport
    /\ UNCHANGED <<args, catalog, warehouse, propVars>>

NextRerun ==
    \/ Start
    \/ ConnectWith(TRUE)
    \/ RerunGetDatabases
    \/ RerunGetSchemas
    \/ SkipSchema
    \/ RerunGetTables
    \/ NextDatabase
    \/ FinishExtractWith(TRUE)
    \/ SyncTableWith(TRUE)
    \/ FinishSync
    \/ Rerun

SpecRerun == InitRerun /\ [][NextRerun]_vars

\* C11: on an unchanged warehouse and command line, with every write
\* succeeding, a further run leaves the catalog as the first run left it:
\* the same dataset URNs hold the same values, nothing is added to a value.
C11_RerunIdempotent ==
    (run > 1 /\ pc = "done") => catalog = catalog_log[1]

C11_Witness ==
    /\ run = 2
    /\ pc = "done"
    /\ report # NoReport
    /\ Len(emits) >= 2
    /\ \A k \in 1..Len(emits) : emits[k].ok
    /\ catalog = catalog_log[1]
    /\ StaleCatalog # catalog
    /\ DOMAIN StaleCatalog \subseteq DOMAIN catalog

(***************************************************************************)
(* create_retention_property.py: the structured property is defined, its   *)
(* settings are written, and both aspects are read back.                   *)
(***************************************************************************)
\* The variables of the sync script, which the property scripts leave alone.
syncVars ==
    <<conn, database_filter, schema_filter, all_databases, databases, dbIdx, all_schemas,
      schemas, schIdx, fetched, all_tables, queries, summary, syncer, emits, syncIdx, stats,
      report, catalog, rerunVars>>

\* --datahub-url and --datahub-token (or the environment variables): each
\* absent, empty, blank or given.
ArgValues == {NoneV, StrV(<<>>), StrV(<<" ">>), Present}

PropertyArgs == { [datahub_url |-> u, datahub_token |-> t] : u \in ArgValues, t \in ArgValues }

\* What a call on the catalog raises when it fails.
CatalogErrors == {"OperationalError", "ConnectionError"}

EmitOutcomes == {"ok"} \cup CatalogErrors

\* The StructuredPropertyDefinition aspect as far as verify_property reads it.
DefinitionAspect(search) == [aspect |-> "definition", searchConfiguration |-> search]

\* The StructuredPropertySettings aspect as far as the scripts read it.
SettingsAspect(filters, summary_) ==
    [aspect |-> "settings", showInSearchFilters |-> filters, showInAssetSummary |-> summary_]

\* The aspects the two create_ functions emit, lines 64-73 and 102-113.
DefinitionWritten == DefinitionAspect([addToFilters |-> TRUE])
SettingsWritten == SettingsAspect(TRUE, TRUE)

\* What get_aspect may return for each aspect: None, or the aspect.
DefinitionReads ==
    {NoneV} \cup { DefinitionAspect(s) : s \in {NoneV, [addToFilters |-> TRUE],
                                                [addToFilters |-> FALSE]} }
SettingsReads == {NoneV} \cup { SettingsAspect(f, s) : f \in BOOLEAN, s \in BOOLEAN }

Emit(aspect, value, outcome) ==
    [op |-> "emit", aspect |-> aspect, value |-> value, outcome |-> outcome]
Get(aspect, value, outcome) ==
    [op |-> "get", aspect |-> aspect, value |-> value, outcome |-> outcome]

InitCreate ==
    /\ pc = "main"
    /\ args \in PropertyArgs
    /\ exit_code = -1
    /\ fatal = "none"
    /\ conn = "none"
    /\ database_filter = <<>>
    /\ schema_filter = <<>>
    /\ all_databases = <<>>
    /\ databases = <<>>
    /\ dbIdx = 0
    /\ all_schemas = <<>>
    /\ schemas = <<>>
    /\ schIdx = 0
    /\ fetched = <<>>
    /\ all_tables = <<>>
    /\ queries = <<>>
    /\ summary = <<>>
    /\ syncer = FALSE
    /\ emits = <<>>
    /\ syncIdx = 0
    /\ stats = [success |-> 0, failed |-> 0]
    /\ report = NoReport
    /\ catalog = EmptyCatalog
    /\ warehouse = NoWarehouse
    /\ run = 1
    /\ catalog_log = <<>>
    /\ client = FALSE
    /\ success = TRUE
    /\ calls = <<>>

\* main, lines 186-191: the two arguments are required
CreateStart ==
    /\ pc = "main"
    /\ IF ~Truthy(args.datahub_url) \/ ~Truthy(args.datahub_token)
       THEN /\ exit_code' = 1
            /\ pc' = "done"
       ELSE /\ pc' = "client"
            /\ UNCHANGED exit_code
    /\ UNCHANGED <<args, fatal, propVars, syncVars>>

\* main, lines 195-203: DataHubGraph(...) outside any try, then success = True
CreateClient ==
    /\ pc = "client"
    /\ \E outcome \in EmitOutcomes :
         IF outcome = "ok"
         THEN /\ client' = TRUE
              /\ success' = TRUE
              /\ pc' = "definition"
              /\ UNCHANGED <<fatal, exit_code>>
         ELSE /\ fatal' = outcome
              /\ exit_code' = 1
              /\ pc' = "done"
              /\ UNCHANGED <<client, success>>
    /\ UNCHANGED <<args, calls, syncVars>>

\* main, lines 206-207: create_property_definition(client), lines 50-86
CreateDefinition ==
    /\ pc = "definition"
    /\ \E outcome \in EmitOutcomes :
         /\ calls' = Append(calls, Emit("definition", DefinitionWritten, outcome))
         /\ success' = IF outcome = "ok" THEN success ELSE FALSE
    /\ pc' = "settings"
    /\ UNCHANGED <<args, exit_code, fatal, client, syncVars>>

\* verify_property without the test of showInSearchFilters
VerifyResultNoFlag(prop_def, prop_settings) ==
    /\ prop_def.outcome = "ok"
    /\ prop_def.value # NoneV
    /\ prop_settings.outcome = "ok"
    /\ prop_settings.value # NoneV

\* verify_property's result from its two reads, lines 135-168 (the second
\* read counts only when the first returned an aspect)
VerifyResult(prop_def, prop_settings) ==
    /\ prop_def.outcome = "ok"
    /\ prop_def.value # NoneV
    /\ prop_settings.outcome = "ok"
    /\ prop_settings.value # NoneV
    /\ prop_settings.value.showInSearchFilters

\* The outcomes of client.get_aspect: an exception, or a value returned.
GetOutcomes(aspect, reads) ==
    { Get(aspect, NoneV, e) : e \in CatalogErrors } \cup { Get(aspect, v, "ok") : v \in reads }

\* main, lines 210-211: create_property_settings(client), lines 89-126
CreateSettings ==
    /\ pc = "settings"
    /\ \E outcome \in EmitOutcomes :
         /\ calls' = Append(calls, Emit("settings", SettingsWritten, outcome))
         /\ success' = IF outcome = "ok" THEN success ELSE FALSE
         /\ pc' = IF success' THEN "verify" ELSE "exit"
    /\ UNCHANGED <<args, exit_code, fatal, client, syncVars>>

\* main, lines 214-216: verify_property(client), lines 129-168; the settings
\* are read only when the definition was returned
VerifyProperty ==
    /\ pc = "verify"
    /\ \E prop_def \in GetOutcomes("definition", DefinitionReads),
          prop_settings \in GetOutcomes("settings", SettingsReads) :
         /\ calls' = IF prop_def.outcome = "ok" /\ prop_def.value # NoneV
                      THEN calls \o <<prop_def, prop_settings>>
                      ELSE Append(calls, prop_def)
         /\ success' = VerifyResult(prop_def, prop_settings)
    /\ pc' = "exit"
    /\ UNCHANGED <<args, exit_code, fatal, client, syncVars>>

\* main, lines 218-232: the closing message, or sys.exit(1)
CreateExit ==
    /\ pc = "exit"
    /\ exit_code' = IF success THEN 0 ELSE 1
    /\ pc' = "done"
    /\ UNCHANGED <<args, fatal, propVars, syncVars>>

NextCreate ==
    \/ CreateStart
    \/ CreateClient
    \/ CreateDefinition
    \/ CreateSettings
    \/ VerifyProperty
    \/ CreateExit

SpecCreate == InitCreate /\ [][NextCreate]_vars

\* The steps of create_retention_property.main as the calls made show them.
EmitFailed(aspect) ==
    \E k \in 1..Len(calls) :
        calls[k].op = "emit" /\ calls[k].aspect = aspect /\ calls[k].outcome # "ok"

VerifyRan == \E k \in 1..Len(calls) : calls[k].op = "get"

\* A read of verify_property raised, found no aspect, or found the settings
\* with showInSearchFilters false.
VerifyFailed ==
    \E k \in 1..Len(calls) :
        /\ calls[k].op = "get"
        /\ \/ calls[k].outcome # "ok"
           \/ calls[k].value = NoneV
           \/ calls[k].aspect = "settings" /\ ~calls[k].value.showInSearchFilters

SomeStepFailed == EmitFailed("definition") \/ EmitFailed("settings") \/ VerifyFailed

\* The definition is written first and the settings next, whatever the first
\* write's outcome; the reads happen only after two successful writes, and
\* always then.
CreateStepOrder ==
    /\ calls # <<>> => calls[1].op = "emit" /\ calls[1].aspect = "definition"
    /\ pc \in {"verify", "exit", "done"} /\ client =>
          /\ Len(calls) >= 2
          /\ calls[2].op = "emit"
          /\ calls[2].aspect = "settings"
    /\ VerifyRan => calls[1].outcome = "ok" /\ calls[2].outcome = "ok"
    /\ pc \in {"exit", "done"} /\ client /\ ~EmitFailed("definition") /\ ~EmitFailed("settings")
          => VerifyRan
    /\ pc \in {"exit", "done"} /\ VerifyFailed => ~success

\* C13 as stated: the settings are attempted after the definition even when
\* the definition failed, verification runs only after both writes succeeded
\* and fails when the definition or the settings are missing or
\* showInSearchFilters is false, and the exit code is 1 if and only if one of
\* the three steps failed.
C13_ExitOneIffStepFailed ==
    /\ CreateStepOrder
    /\ pc = "done" => (exit_code = 1 <=> SomeStepFailed)

\* C13 amended: as stated for the three steps, the exit code being 1 if and
\* only if one of the three steps failed or the script never reached them (a
\* required argument absent or empty, or the DataHubGraph constructor
\* raising), in which case no call on the catalog was made.
C13_ExitOneIffStepFailedOrNotReached ==
    /\ CreateStepOrder
    /\ pc = "done" =>
          /\ exit_code \in {0, 1}
          /\ exit_code = 1 <=> (~client \/ SomeStepFailed)
          /\ ~client => calls = <<>>
          /\ ~client <=> \/ ~Truthy(args.datahub_url)
                         \/ ~Truthy(args.datahub_token)
                         \/ fatal # "none"

C13_Witness ==
    /\ pc = "done"
    /\ client
    /\ exit_code = 1
    /\ Len(calls) = 2
    /\ calls[1] = Emit("definition", DefinitionWritten, "OperationalError")
    /\ calls[2] = Emit("settings", SettingsWritten, "ok")

(***************************************************************************)
(* fix_retention_property_filters.py: a script run top to bottom, with no  *)
(* try statement; an exception of any call ends it with a traceback and    *)
(* exit code 1.                                                            *)
(***************************************************************************)
\* DATAHUB_GMS_URL with its default, line 33, and DATAHUB_TOKEN, line 34.
DefaultUrl == StrV(<<"https://test-environment.acryl.io/gms">>)

FixArgs ==
    { [datahub_url |-> u, datahub_token |-> t] :
        u \in {DefaultUrl, Present, StrV(<<>>)}, t \in ArgValues }

InitFix ==
    /\ pc = "main"
    /\ args \in FixArgs
    /\ exit_code = -1
    /\ fatal = "none"
    /\ conn = "none"
    /\ database_filter = <<>>
    /\ schema_filter = <<>>
    /\ all_databases = <<>>
    /\ databases = <<>>
    /\ dbIdx = 0
    /\ all_schemas = <<>>
    /\ schemas = <<>>
    /\ schIdx = 0
    /\ fetched = <<>>
    /\ all_tables = <<>>
    /\ queries = <<>>
    /\ summary = <<>>
    /\ syncer = FALSE
    /\ emits = <<>>
    /\ syncIdx = 0
    /\ stats = [success |-> 0, failed |-> 0]
    /\ report = NoReport
    /\ catalog = EmptyCatalog
    /\ warehouse = NoWarehouse
    /\ run = 1
    /\ catalog_log = <<>>
    /\ client = FALSE
    /\ success = TRUE
    /\ calls = <<>>

\* An exception no handler catches: traceback, exit code 1
Uncaught(exc) ==
    /\ fatal' = exc
    /\ exit_code' = 1
    /\ pc' = "done"

\* lines 36-38
FixStart ==
    /\ pc = "main"
    /\ IF ~Truthy(args.datahub_token)
       THEN /\ exit_code' = 1
            /\ pc' = "done"
       ELSE /\ pc' = "client"
            /\ UNCHANGED exit_code
    /\ UNCHANGED <<args, fatal, propVars, syncVars>>

\* line 41
FixClient ==
    /\ pc = "client"
    /\ \E outcome \in EmitOutcomes :
         IF outcome = "ok"
         THEN /\ client' = TRUE
              /\ pc' = "check"
              /\ UNCHANGED <<fatal, exit_code>>
         ELSE /\ Uncaught(outcome)
              /\ UNCHANGED client
    /\ UNCHANGED <<args, success, calls, syncVars>>

\* The test of the current settings taken as passed whenever settings exist
AlreadyShownIfPresent(settings) == settings # NoneV

\* lines 47 and 49, and line 84: the settings exist and showInSearchFilters is true
AlreadyShown(settings) == settings # NoneV /\ settings.showInSearchFilters

\* lines 45-55: the current settings are read
FixCheck ==
    /\ pc = "check"
    /\ \E current_settings \in GetOutcomes("settings", SettingsReads) :
         /\ calls' = Append(calls, current_settings)
         /\ IF current_settings.outcome # "ok"
            THEN Uncaught(current_settings.outcome)
            ELSE IF AlreadyShown(current_settings.value)
                 THEN /\ exit_code' = 0
                      /\ pc' = "done"
                      /\ UNCHANGED fatal
                 ELSE /\ pc' = "write"
                      /\ UNCHANGED <<fatal, exit_code>>
    /\ UNCHANGED <<args, client, success, syncVars>>

\* lines 60-78: the settings are written with showInSearchFilters=True
FixWrite ==
    /\ pc = "write"
    /\ \E outcome \in EmitOutcomes :
         /\ calls' = Append(calls, Emit("settings", SettingsWritten, outcome))
         /\ IF outcome = "ok"
            THEN /\ pc' = "recheck"
                 /\ UNCHANGED <<fatal, exit_code>>
            ELSE Uncaught(outcome)
    /\ UNCHANGED <<args, client, success, syncVars>>

\* lines 83-93: the settings are read again
FixVerify ==
    /\ pc = "recheck"
    /\ \E updated_settings \in GetOutcomes("settings", SettingsReads) :
         /\ calls' = Append(calls, updated_settings)
         /\ IF updated_settings.outcome # "ok"
            THEN Uncaught(updated_settings.outcome)
            ELSE /\ exit_code' = IF AlreadyShown(updated_settings.value) THEN 0 ELSE 1
                 /\ pc' = "done"
                 /\ UNCHANGED fatal
    /\ UNCHANGED <<args, client, success, syncVars>>

NextFix ==
    \/ FixStart
    \/ FixClient
    \/ FixCheck
    \/ FixWrite
    \/ FixVerify

SpecFix == InitFix /\ [][NextFix]_vars

\* The call returned settings with showInSearchFilters true.
Shown(call) ==
    /\ call.op = "get"
    /\ call.outcome = "ok"
    /\ call.value # NoneV
    /\ call.value.showInSearchFilters

Writes == { k \in 1..Len(calls) : calls[k].op = "emit" }

\* A missing or empty token: exit code 1, no client, no call on the catalog.
TokenRequired ==
    ~Truthy(args.datahub_token) =>
        /\ ~client
        /\ calls = <<>>
        /\ pc = "done" => exit_code = 1

\* C14 as stated: settings already shown, exit 0 and no write; otherwise
\* exactly one settings write with showInSearchFilters=True, then a second
\* read, and exit code 1 unless that read finds the settings with the flag
\* true; a missing token, exit 1 before any catalog call.
C14_OneWriteThenReread ==
    /\ TokenRequired
    /\ (pc = "done" /\ Truthy(args.datahub_token)) =>
          IF calls # <<>> /\ Shown(calls[1])
          THEN exit_code = 0 /\ Writes = {}
          ELSE /\ Cardinality(Writes) = 1
               /\ \A k \in Writes : calls[k] = Emit("settings", SettingsWritten, calls[k].outcome)
               /\ Len(calls) = 3
               /\ calls[3].op = "get"
               /\ exit_code = 1 <=> ~Shown(calls[3])

\* C14 amended: as stated when every call returns; a call that raises (the
\* constructor, a read, the write) ends the script at once with exit code 1,
\* so that there is no write after a failed first read, no second read after
\* a failed write, and never more than one write.
C14_OneWriteThenRereadUnlessRaised ==
    /\ TokenRequired
    /\ Cardinality(Writes) <= 1
    /\ \A k \in Writes : k = 2 /\ calls[k] = Emit("settings", SettingsWritten, calls[k].outcome)
    /\ (pc = "done" /\ Truthy(args.datahub_token)) =>
          /\ exit_code \in {0, 1}
          /\ fatal # "none" => exit_code = 1
          /\ IF ~client THEN calls = <<>> /\ fatal # "none"
             ELSE /\ calls # <<>>
                  /\ calls[1].op = "get"
                  /\ IF calls[1].outcome # "ok" THEN Len(calls) = 1 /\ fatal = calls[1].outcome
                     ELSE IF Shown(calls[1]) THEN Len(calls) = 1 /\ exit_code = 0
                     ELSE /\ Len(calls) >= 2
                          /\ calls[2].op = "emit"
                          /\ IF calls[2].outcome # "ok"
                             THEN Len(calls) = 2 /\ fatal = calls[2].outcome
                             ELSE /\ Len(calls) = 3
                                  /\ calls[3].op = "get"
                                  /\ exit_code = 0 <=> Shown(calls[3])
                                  /\ calls[3].outcome # "ok" <=> fatal # "none"

C14_Witness ==
    /\ pc = "done"
    /\ exit_code = 0
    /\ Len(calls) = 3
    /\ calls[1] = Get("settings", SettingsAspect(FALSE, TRUE), "ok")
    /\ calls[2] = Emit("settings", SettingsWritten, "ok")
    /\ Shown(calls[3])

====
